---- MODULE Spec2Model ----
(***************************************************************************)
(* Inter-agent messaging of src/test_agents.py: Message, BaseAgent         *)
(* (send_message, receive_message, process_messages, _handle_message),     *)
(* QuestionAgent and AnswerAgent (generate_question, generate_answer),     *)
(* driven by concurrent caller tasks, and the tables of DatabaseManager     *)
(* (src/db/database.py), which the agents never call.                      *)
(*                                                                         *)
(* Python values are encoded as follows: a str identifier or tag is a TLA+ *)
(* string, None is the value None below, a text (message content, a        *)
(* timestamp) is a sequence of one-character strings, and an optional      *)
(* Message is a sequence of length 0 (None) or 1.                          *)
(*                                                                         *)
(* Steps: the callers are tasks that run concurrently. A coroutine runs    *)
(* from one await of the backend to the next in one step. receive_message  *)
(* is a plain method on a queue.Queue, which threads may call at the same  *)
(* time, so its checks and its put_nowait are two steps.                   *)
(***************************************************************************)
EXTENDS Integers, Sequences, FiniteSets, TLC

\* ------------------------------------------------------------------ bounds

\* Cap on the number of messages admitted to mailboxes in one behaviour.
MaxAdmitted == 2

\* Largest max_queue_size given to a constructor.
MaxQueueSize == 2

\* Largest number of lines in the body of a backend response.
MaxLines == 3

\* Cap on the number of generate_question / generate_answer calls the driver
\* makes in one behaviour.
MaxCalls == 3

\* Cap on the number of rows of the table messages, and on the number of
\* times the clock of the database is seen to advance.
MaxRows == 2
MaxTicks == 2

\* ------------------------------------------------------------ input sets

None == "<None>"
Omitted == "<omitted>"

Agents == {"agent1", "agent2"}
Tasks == {"t1", "t2"}
\* The agents the program constructs together: two BaseAgents
\* (test_base_agent), a QuestionAgent and an AnswerAgent (test_qa_agents).
Setups ==
    {[agent1 |-> "BaseAgent", agent2 |-> "BaseAgent"],
     [agent1 |-> "QuestionAgent", agent2 |-> "AnswerAgent"]}
QueueSizes == 1..MaxQueueSize
\* max_queue_size arguments that are not capacities: Queue(maxsize) with
\* maxsize <= 0 is a queue of infinite size.
NonPositiveSizes == {0, 0 - 1}

\* to_agent_id arguments: the agents, the empty identifier, and a non-str.
Destinations == Agents \cup {"", None}
Contents == {<<"H", "i">>, <<>>}
MessageTypeArgs == {"general", "question", "answer", Omitted}
\* Seconds read from the wall clock by datetime.now().
Clock == {7, 42}

\* What the generation backend answers to one POST: the lines of the body, or
\* no response within the timeout. A line is empty, not JSON, or a JSON object
\* whose "response" field is present (<<text>>) or absent (<<>>).
EmptyLine == [kind |-> "empty", response |-> <<>>]
Garbage == [kind |-> "garbage", response |-> <<>>]
Record(response) == [kind |-> "object", response |-> response]
TimedOut == [status_code |-> 0, lines |-> <<>>]
Responses ==
    {[status_code |-> 200,
      lines |-> <<Record(<<<<" ", "H", "e", "l">>>>), Record(<<>>), EmptyLine,
                  Record(<<<<"l", "o", "\n">>>>), EmptyLine>>],
     [status_code |-> 200, lines |-> <<Record(<<<<"H", "i">>>>), Garbage>>],
     [status_code |-> 500, lines |-> <<Record(<<>>)>>],
     TimedOut}

\* Every body of at most MaxLines lines, sent with status 200.
Fragments == {<<" ", "H", "e", "l">>, <<"l", "o", "\n">>}
Lines == {Record(<<f>>) : f \in Fragments} \cup {Record(<<>>), EmptyLine, Garbage}
Bodies ==
    {[status_code |-> 200, lines |-> lines] :
        lines \in UNION {[1..n -> Lines] : n \in 0..MaxLines}}

\* The topic and the question given to generate_question / generate_answer.
Topics == {<<"H", "i">>}
\* The model every constructor call leaves at its default.
DefaultModel == "mistral"

\* ------------------------------------------------------------- Message

Digit(n) == <<"0", "1", "2", "3", "4", "5", "6", "7", "8", "9">>[n + 1]

\* datetime.isoformat() of a time on a fixed day, `now` seconds past midnight.
isoformat(now) ==
    <<"2", "0", "2", "4", "-", "0", "1", "-", "0", "1", "T",
      "0", "0", ":", "0", "0", ":">> \o <<Digit(now \div 10), Digit(now % 10)>>

\* pydantic's validation of the str fields of Message.
ValidationError(sender_id, receiver_id, content, message_type) ==
    \/ sender_id = None
    \/ receiver_id = None
    \/ message_type = None

\* Variant of Message with a slip: the two identifiers exchanged.
Message_exchanged(sender_id, receiver_id, content, message_type, now) ==
    [sender_id    |-> receiver_id,
     receiver_id  |-> sender_id,
     content      |-> content,
     message_type |-> IF message_type = Omitted THEN "general" ELSE message_type,
     timestamp    |-> isoformat(now)]

Message(sender_id, receiver_id, content, message_type, now) ==
    [sender_id    |-> sender_id,
     receiver_id  |-> receiver_id,
     content      |-> content,
     message_type |-> IF message_type = Omitted THEN "general" ELSE message_type,
     timestamp    |-> isoformat(now)]

\* What a call leaves with its caller: the exception raised (None if none) and
\* the value returned (<<>> for None).
Returned(value) == [raised |-> None, value |-> value]
Raised(exception) == [raised |-> exception, value |-> <<>>]

\* BaseAgent.send_message, called on the agent `self`.
send_message(self, to_agent_id, content, message_type, now) ==
    IF ValidationError(self, to_agent_id, content,
                       IF message_type = Omitted THEN "general" ELSE message_type)
    THEN Raised("CommunicationError")
    ELSE Returned(<<Message(self, to_agent_id, content, message_type, now)>>)

\* The Messages handed to receive_message: those one agent builds for the
\* other, general or question.
Deliveries ==
    {send_message(a, b, <<"H", "i">>, message_type, 7).value[1] :
        <<a, b, message_type>> \in
            {x \in Agents \X Agents \X {Omitted, "question"} : x[1] # x[2]}}

\* ------------------------------------------------- generation client

IsSpace(c) == c \in {" ", "\t", "\n", "\r"}

\* str.strip() of a text.
RECURSIVE lstrip(_)
lstrip(text) ==
    IF text # <<>> /\ IsSpace(Head(text)) THEN lstrip(Tail(text)) ELSE text

RECURSIVE rstrip(_)
rstrip(text) ==
    IF text # <<>> /\ IsSpace(text[Len(text)])
    THEN rstrip(SubSeq(text, 1, Len(text) - 1))
    ELSE text

strip(text) == lstrip(rstrip(text))

\* response.text.strip().split('\n'): the body without the empty lines at
\* its ends.
RECURSIVE split_lines(_)
split_lines(lines) ==
    IF lines # <<>> /\ Head(lines) = EmptyLine THEN split_lines(Tail(lines))
    ELSE IF lines # <<>> /\ lines[Len(lines)] = EmptyLine
    THEN split_lines(SubSeq(lines, 1, Len(lines) - 1))
    ELSE lines

\* Variant with a slip: a record without the field ends the loop.
RECURSIVE accumulate_until_missing(_, _)
accumulate_until_missing(lines, text) ==
    IF lines = <<>> THEN [raised |-> None, text |-> text]
    ELSE LET line == Head(lines) IN
         IF line = EmptyLine THEN accumulate_until_missing(Tail(lines), text)
         ELSE IF line.kind = "garbage"
         THEN [raised |-> "JSONDecodeError", text |-> text]
         ELSE IF line.response # <<>>
         THEN accumulate_until_missing(Tail(lines), text \o line.response[1])
         ELSE [raised |-> None, text |-> text]

\* The loop over the lines: the exception json.loads raised (None if none)
\* and the text accumulated so far.
RECURSIVE accumulate(_, _)
accumulate(lines, text) ==
    IF lines = <<>> THEN [raised |-> None, text |-> text]
    ELSE LET line == Head(lines) IN
         IF line = EmptyLine THEN accumulate(Tail(lines), text)
         ELSE IF line.kind = "garbage"
         THEN [raised |-> "JSONDecodeError", text |-> text]
         ELSE IF line.response # <<>>
         THEN accumulate(Tail(lines), text \o line.response[1])
         ELSE accumulate(Tail(lines), text)

\* AnswerAgent.generate_answer / QuestionAgent.generate_question once the POST
\* has come back with `response`: the exception raised or the text returned.
generate(response) ==
    IF response = TimedOut THEN [raised |-> "TimeoutException", text |-> <<>>]
    ELSE LET acc == accumulate(split_lines(response.lines), <<>>) IN
         IF acc.raised # None THEN [raised |-> acc.raised, text |-> <<>>]
         ELSE [raised |-> None, text |-> strip(acc.text)]

\* ------------------------------------------------------------ queue.Queue

\* Variants of full with a slip: one slot too many; never full.
full_one_too_many(queue, maxsize) == 0 < maxsize /\ maxsize < Len(queue)
full_never(queue, maxsize) == FALSE

full(queue, maxsize) == 0 < maxsize /\ maxsize <= Len(queue)
\* Variant of empty with a slip: one item counts as none.
empty_but_one(queue) == Len(queue) <= 1

empty(queue) == Len(queue) = 0
put(queue, item) == Append(queue, item)
\* Variant of get with a slip: the newest item first.
get_item_newest(queue) == queue[Len(queue)]

get_item(queue) == Head(queue)
\* Variant with a slip: get leaves the item in the queue.
get_rest_keeps(queue) == queue

get_rest(queue) == Tail(queue)

\* Variants of the checks with a slip: no receiver check; the fullness check
\* first.
receive_check_any_receiver(self, m, queue, maxsize) ==
    IF full(queue, maxsize) THEN "QueueFullError" ELSE None
receive_check_full_first(self, m, queue, maxsize) ==
    IF full(queue, maxsize) THEN "QueueFullError"
    ELSE IF m.receiver_id # self THEN "CommunicationError"
    ELSE None

\* The checks of BaseAgent.receive_message before the insertion: the
\* exception raised, None if the message goes on to put_nowait.
receive_check(self, m, queue, maxsize) ==
    IF m.receiver_id # self THEN "CommunicationError"
    ELSE IF full(queue, maxsize) THEN "QueueFullError"
    ELSE None

\* ----------------------------------------------------- _handle_message

\* Variants with a slip: the base class handler does nothing; the AnswerAgent
\* answers every message.
handle_message_base_silent(class, m) ==
    CASE class = "BaseAgent" -> "return"
      [] class = "QuestionAgent" -> "return"
      [] class = "AnswerAgent" ->
             IF m.message_type = "question" THEN "await" ELSE "return"
handle_message_answers_all(class, m) ==
    CASE class = "BaseAgent" -> "NotImplementedError"
      [] class = "QuestionAgent" -> "return"
      [] class = "AnswerAgent" -> "await"

\* Variant with a slip: the QuestionAgent goes on to generate, as the
\* AnswerAgent does.
handle_message_question_generates(class, m) ==
    CASE class = "BaseAgent" -> "NotImplementedError"
      [] class = "QuestionAgent" -> "await"
      [] class = "AnswerAgent" ->
             IF m.message_type = "question" THEN "await" ELSE "return"

\* _handle_message of each class, up to its first await: the exception it
\* raises, "return" when it returns None, "await" when it goes on to
\* generate_answer and awaits the POST.
handle_message(class, m) ==
    CASE class = "BaseAgent" -> "NotImplementedError"
      [] class = "QuestionAgent" -> "return"
      [] class = "AnswerAgent" ->
             IF m.message_type = "question" THEN "await" ELSE "return"

\* Variant with a slip: the reply goes to the receiver of the question.
answer_reply_to_receiver(self, m, answer, now) ==
    send_message(self, m.receiver_id, answer, "answer", now)

\* AnswerAgent._handle_message after generate_answer: the reply it builds.
answer_reply(self, m, answer, now) ==
    send_message(self, m.sender_id, answer, "answer", now)

\* ------------------------------------------------------------------ state

VARIABLES
    agent_class,      \* the class each agent was constructed from
    max_queue_size,   \* the max_queue_size each agent was constructed with
    message_queue,    \* BaseAgent.message_queue of each agent
    pc,               \* where each task is
    self_,            \* the agent whose method a task is running
    message,          \* the local variable `message` of a running method
    ret,              \* what the most recently completed call left with its caller
    handler_ret,      \* what the most recently completed _handle_message returned
    admitted,         \* history: the messages put into each mailbox, in order
    handled,          \* history: the messages given to each agent's handler
    replies,          \* history: the Messages each agent's handlers returned
    request,          \* local of a task in generate_question / generate_answer
                      \* called by the driver: the json of its POST
    generated,        \* history: the generate_question / generate_answer calls
                      \* the driver made that have ended, in order
    db_messages,      \* the rows of the table messages
    db_state,         \* the column state of the table agents, per agent_id
    db_now,           \* the clock of the database, in seconds
    db_result         \* the get_agent_messages call made, if any: its
                      \* arguments and the list it returned

vars == <<agent_class, max_queue_size, message_queue, pc, self_, message, ret,
          handler_ret, admitted, handled, replies, request, generated,
          db_messages, db_state, db_now, db_result>>

\* What receive_message and process_messages never touch.
apart == <<request, generated, db_messages, db_state, db_now, db_result>>

config == <<agent_class, max_queue_size>>

Init ==
    /\ agent_class \in Setups
    /\ max_queue_size \in [Agents -> QueueSizes]
    /\ message_queue = [a \in Agents |-> <<>>]
    /\ pc = [t \in Tasks |-> "idle"]
    /\ self_ = [t \in Tasks |-> None]
    /\ message = [t \in Tasks |-> <<>>]
    /\ ret = Returned(<<>>)
    /\ handler_ret = <<>>
    /\ admitted = [a \in Agents |-> <<>>]
    /\ handled = [a \in Agents |-> <<>>]
    /\ replies = [a \in Agents |-> <<>>]
    /\ request = [t \in Tasks |-> <<>>]
    /\ generated = <<>>
    /\ db_messages = <<>>
    /\ db_state = [a \in Agents |-> None]
    /\ db_now = 0
    /\ db_result = <<>>

RECURSIVE SumLen(_, _)
SumLen(f, S) ==
    IF S = {} THEN 0
    ELSE LET a == CHOOSE x \in S : TRUE IN Len(f[a]) + SumLen(f, S \ {a})

\* Admissions made or under way.
Admissions ==
    SumLen(admitted, Agents) + Cardinality({t \in Tasks : pc[t] = "put_nowait"})

\* A task leaves the method it was running.
Leave(t) ==
    /\ pc' = [pc EXCEPT ![t] = "idle"]
    /\ self_' = [self_ EXCEPT ![t] = None]
    /\ message' = [message EXCEPT ![t] = <<>>]

\* --------------------------------------------------------------- actions

\* A free task calls self.send_message(to_agent_id, content, message_type).
SendMessage(self, to_agent_id, content, message_type, now) ==
    /\ UNCHANGED apart
    /\ \E t \in Tasks : pc[t] = "idle"
    /\ ret' = send_message(self, to_agent_id, content, message_type, now)
    /\ UNCHANGED <<config, message_queue, pc, self_, message, handler_ret,
                   admitted, handled, replies>>

\* Task t calls self.receive_message(m): the checks, up to the call of
\* put_nowait.
ReceiveMessage(t, self, m) ==
    /\ UNCHANGED apart
    /\ pc[t] = "idle"
    /\ LET raised == receive_check(self, m, message_queue[self],
                                   max_queue_size[self]) IN
       IF raised # None
       THEN /\ ret' = Raised(raised)
            /\ UNCHANGED <<pc, self_, message>>
       ELSE /\ Admissions < MaxAdmitted
            /\ pc' = [pc EXCEPT ![t] = "put_nowait"]
            /\ self_' = [self_ EXCEPT ![t] = self]
            /\ message' = [message EXCEPT ![t] = <<m>>]
            /\ ret' = Returned(<<>>)
    /\ UNCHANGED <<config, message_queue, handler_ret, admitted, handled,
                   replies>>

\* Variant with a slip: one queue object shared by every agent, as a class
\* attribute would be.
PutNowait_shared_queue(t) ==
    /\ UNCHANGED apart
    /\ pc[t] = "put_nowait"
    /\ LET self == self_[t]
           m == message[t][1] IN
       IF full(message_queue[self], max_queue_size[self])
       THEN /\ ret' = Raised("Full")
            /\ UNCHANGED <<message_queue, admitted>>
       ELSE /\ message_queue' =
                   [a \in Agents |-> put(message_queue[a], m)]
            /\ admitted' = [admitted EXCEPT ![self] = Append(admitted[self], m)]
            /\ ret' = Returned(<<>>)
    /\ Leave(t)
    /\ UNCHANGED <<config, handler_ret, handled, replies>>

\* self.message_queue.put_nowait(message), then receive_message returns.
PutNowait(t) ==
    /\ UNCHANGED apart
    /\ pc[t] = "put_nowait"
    /\ LET self == self_[t]
           m == message[t][1] IN
       IF full(message_queue[self], max_queue_size[self])
       THEN /\ ret' = Raised("Full")
            /\ UNCHANGED <<message_queue, admitted>>
       ELSE /\ message_queue' =
                   [message_queue EXCEPT ![self] = put(message_queue[self], m)]
            /\ admitted' = [admitted EXCEPT ![self] = Append(admitted[self], m)]
            /\ ret' = Returned(<<>>)
    /\ Leave(t)
    /\ UNCHANGED <<config, handler_ret, handled, replies>>

\* Task t calls self.process_messages().
ProcessMessages(t, self) ==
    /\ UNCHANGED apart
    /\ pc[t] = "idle"
    /\ pc' = [pc EXCEPT ![t] = "while"]
    /\ self_' = [self_ EXCEPT ![t] = self]
    /\ UNCHANGED <<config, message_queue, message, ret, handler_ret,
                   admitted, handled, replies>>

\* The loop test of process_messages on an empty queue: the call returns.
WhileEmpty(t) ==
    /\ UNCHANGED apart
    /\ pc[t] = "while"
    /\ empty(message_queue[self_[t]])
    /\ ret' = Returned(<<>>)
    /\ Leave(t)
    /\ UNCHANGED <<config, message_queue, handler_ret, admitted, handled,
                   replies>>

\* Variant with a slip: a message whose handler raises goes back to the
\* queue.
WhileGet_requeues(t) ==
    /\ UNCHANGED apart
    /\ pc[t] = "while"
    /\ ~empty(message_queue[self_[t]])
    /\ LET self == self_[t]
           m == get_item(message_queue[self]) IN
       /\ message_queue' =
              [message_queue EXCEPT
                 ![self] = IF handle_message(agent_class[self], m)
                                  \in {"return", "await"}
                           THEN get_rest(message_queue[self])
                           ELSE put(get_rest(message_queue[self]), m)]
       /\ handled' = [handled EXCEPT ![self] = Append(handled[self], m)]
       /\ LET outcome == handle_message(agent_class[self], m) IN
          CASE outcome = "return" ->
                 /\ handler_ret' = <<>>
                 /\ UNCHANGED <<pc, self_, message, ret>>
            [] outcome = "await" ->
                 /\ pc' = [pc EXCEPT ![t] = "await_post"]
                 /\ message' = [message EXCEPT ![t] = <<m>>]
                 /\ UNCHANGED <<self_, ret, handler_ret>>
            [] OTHER ->
                 /\ ret' = Raised(outcome)
                 /\ Leave(t)
                 /\ UNCHANGED handler_ret
    /\ UNCHANGED <<config, admitted, replies>>

\* The loop test on a non-empty queue, get(), and _handle_message up to the
\* point where it returns, raises or awaits the generation backend.
WhileGet(t) ==
    /\ UNCHANGED apart
    /\ pc[t] = "while"
    /\ ~empty(message_queue[self_[t]])
    /\ LET self == self_[t]
           m == get_item(message_queue[self]) IN
       /\ message_queue' =
              [message_queue EXCEPT ![self] = get_rest(message_queue[self])]
       /\ handled' = [handled EXCEPT ![self] = Append(handled[self], m)]
       /\ LET outcome == handle_message(agent_class[self], m) IN
          CASE outcome = "return" ->
                 /\ handler_ret' = <<>>
                 /\ UNCHANGED <<pc, self_, message, ret>>
            [] outcome = "await" ->
                 /\ pc' = [pc EXCEPT ![t] = "await_post"]
                 /\ message' = [message EXCEPT ![t] = <<m>>]
                 /\ UNCHANGED <<self_, ret, handler_ret>>
            [] OTHER ->
                 /\ ret' = Raised(outcome)
                 /\ Leave(t)
                 /\ UNCHANGED handler_ret
    /\ UNCHANGED <<config, admitted, replies>>

\* The POST of generate_answer comes back to the AnswerAgent handler that
\* awaits it: the handler raises, or builds the reply with send_message and
\* returns it to process_messages, which drops it and goes back to its loop
\* test.
PostReturns(t, response, now) ==
    /\ UNCHANGED apart
    /\ pc[t] = "await_post"
    /\ LET self == self_[t]
           m == message[t][1]
           answer == generate(response) IN
       IF answer.raised # None
       THEN /\ ret' = Raised(answer.raised)
            /\ Leave(t)
            /\ UNCHANGED <<handler_ret, replies>>
       ELSE LET response_message == answer_reply(self, m, answer.text, now) IN
            IF response_message.raised # None
            THEN /\ ret' = response_message
                 /\ Leave(t)
                 /\ UNCHANGED <<handler_ret, replies>>
            ELSE /\ handler_ret' = response_message.value
                 /\ replies' = [replies EXCEPT
                                  ![self] = @ \o response_message.value]
                 /\ pc' = [pc EXCEPT ![t] = "while"]
                 /\ message' = [message EXCEPT ![t] = <<>>]
                 /\ UNCHANGED <<self_, ret>>
    /\ UNCHANGED <<config, message_queue, admitted, handled>>

Next ==
    \/ \E t \in Tasks, self \in Agents, m \in Deliveries :
          ReceiveMessage(t, self, m)
    \/ \E t \in Tasks : PutNowait(t)
    \/ \E t \in Tasks, self \in Agents : ProcessMessages(t, self)
    \/ \E t \in Tasks : WhileEmpty(t)
    \/ \E t \in Tasks : WhileGet(t)
    \/ \E t \in Tasks, response \in Responses :
          PostReturns(t, response, 7)

Spec == Init /\ [][Next]_vars

\* The event loop runs every task that can run, and the POST of a handler
\* comes back or times out (httpx.Timeout(30.0)).
Fairness ==
    \A t \in Tasks :
        /\ WF_vars(WhileEmpty(t))
        /\ WF_vars(WhileGet(t))
        /\ WF_vars(\E response \in Responses : PostReturns(t, response, 7))

FairSpec == Spec /\ Fairness

\* send_message on its own: called with every input, with no other call
\* under way and each mailbox empty or holding one message.
InitSend ==
    /\ agent_class \in Setups
    /\ max_queue_size \in [Agents -> QueueSizes]
    /\ message_queue \in [Agents -> {<<>>} \cup {<<m>> : m \in Deliveries}]
    /\ \A a \in Agents :
          \A i \in 1..Len(message_queue[a]) : message_queue[a][i].receiver_id = a
    /\ pc = [t \in Tasks |-> "idle"]
    /\ self_ = [t \in Tasks |-> None]
    /\ message = [t \in Tasks |-> <<>>]
    /\ ret = Returned(<<>>)
    /\ handler_ret = <<>>
    /\ admitted = message_queue
    /\ handled = [a \in Agents |-> <<>>]
    /\ replies = [a \in Agents |-> <<>>]
    /\ request = [t \in Tasks |-> <<>>]
    /\ generated = <<>>
    /\ db_messages = <<>>
    /\ db_state = [a \in Agents |-> None]
    /\ db_now = 0
    /\ db_result = <<>>

\* One call from each state.
NextSend ==
    /\ ret = Returned(<<>>)
    /\ \E self \in Agents, to_agent_id \in Destinations,
          content \in Contents, message_type \in MessageTypeArgs, now \in Clock :
          SendMessage(self, to_agent_id, content, message_type, now)

SpecSend == InitSend /\ [][NextSend]_vars

\* A conversation of the QuestionAgent and the AnswerAgent, as in
\* test_qa_agents: the driver hands messages of the QuestionAgent to the
\* AnswerAgent, hands on the replies the handlers returned, and runs
\* process_messages on both.
InitTalk ==
    /\ Init
    /\ agent_class["agent1"] = "QuestionAgent"

NextTalk ==
    \/ \E t \in Tasks, m \in Deliveries :
          /\ agent_class[m.sender_id] = "QuestionAgent"
          /\ ReceiveMessage(t, m.receiver_id, m)
    \/ \E t \in Tasks, a \in Agents :
          \E i \in 1..Len(replies[a]) :
             ReceiveMessage(t, replies[a][i].receiver_id, replies[a][i])
    \/ \E t \in Tasks : PutNowait(t)
    \/ \E t \in Tasks, self \in Agents : ProcessMessages(t, self)
    \/ \E t \in Tasks : WhileEmpty(t)
    \/ \E t \in Tasks : WhileGet(t)
    \/ \E t \in Tasks, response \in Responses :
          PostReturns(t, response, 7)

SpecTalk == InitTalk /\ [][NextTalk]_vars

\* As Fairness, and a receive_message under way goes on to its put_nowait.
FairTalk ==
    /\ SpecTalk
    /\ Fairness
    /\ \A t \in Tasks : WF_vars(PutNowait(t))

\* Agents constructed with max_queue_size 0 or -1, which __init__ hands to
\* Queue(maxsize=...) as they are.
InitUnbounded ==
    /\ agent_class \in Setups
    /\ max_queue_size \in [Agents -> NonPositiveSizes]
    /\ message_queue = [a \in Agents |-> <<>>]
    /\ pc = [t \in Tasks |-> "idle"]
    /\ self_ = [t \in Tasks |-> None]
    /\ message = [t \in Tasks |-> <<>>]
    /\ ret = Returned(<<>>)
    /\ handler_ret = <<>>
    /\ admitted = [a \in Agents |-> <<>>]
    /\ handled = [a \in Agents |-> <<>>]
    /\ replies = [a \in Agents |-> <<>>]
    /\ request = [t \in Tasks |-> <<>>]
    /\ generated = <<>>
    /\ db_messages = <<>>
    /\ db_state = [a \in Agents |-> None]
    /\ db_now = 0
    /\ db_result = <<>>

SpecUnbounded == InitUnbounded /\ [][Next]_vars

\* ------------------------------------------- generation called directly

\* The json of the POST of generate_question and of generate_answer.
question_request(topic) ==
    [model |-> DefaultModel,
     prompt |-> <<"Generate a thought-provoking question about: ">> \o topic]
answer_request(question) ==
    [model |-> DefaultModel,
     prompt |-> <<"Please answer this question: ">> \o question]

\* Generation calls made or under way.
Calls == Len(generated) + Cardinality({t \in Tasks : pc[t] = "await_generate"})

\* Task t calls self.generate_question(topic), as test_qa_agents does, and
\* awaits the POST.
GenerateQuestion(t, self, topic) ==
    /\ pc[t] = "idle"
    /\ agent_class[self] = "QuestionAgent"
    /\ Calls < MaxCalls
    /\ pc' = [pc EXCEPT ![t] = "await_generate"]
    /\ self_' = [self_ EXCEPT ![t] = self]
    /\ request' = [request EXCEPT ![t] = <<question_request(topic)>>]
    /\ UNCHANGED <<config, message_queue, message, ret, handler_ret, admitted,
                   handled, replies, generated, db_messages, db_state,
                   db_now, db_result>>

\* Task t calls self.generate_answer(question) and awaits the POST.
GenerateAnswer(t, self, question) ==
    /\ pc[t] = "idle"
    /\ agent_class[self] = "AnswerAgent"
    /\ Calls < MaxCalls
    /\ pc' = [pc EXCEPT ![t] = "await_generate"]
    /\ self_' = [self_ EXCEPT ![t] = self]
    /\ request' = [request EXCEPT ![t] = <<answer_request(question)>>]
    /\ UNCHANGED <<config, message_queue, message, ret, handler_ret, admitted,
                   handled, replies, generated, db_messages, db_state,
                   db_now, db_result>>

\* Variant with a slip: the accumulator outlives the call and starts from
\* the text the call before returned.
GenerateReturns_accumulating(t, response) ==
    /\ pc[t] = "await_generate"
    /\ LET before == IF ret.raised = None /\ ret.value # <<>>
                     THEN ret.value[1] ELSE <<>>
           text == IF generate(response).raised # None THEN generate(response)
                   ELSE [raised |-> None,
                         text |-> strip(accumulate(split_lines(response.lines),
                                                   before).text)] IN
       /\ ret' = IF text.raised # None THEN Raised(text.raised)
                 ELSE Returned(<<text.text>>)
       /\ generated' = Append(generated,
                              [request |-> request[t][1], response |-> response,
                               raised |-> text.raised, text |-> text.text])
    /\ request' = [request EXCEPT ![t] = <<>>]
    /\ Leave(t)
    /\ UNCHANGED <<config, message_queue, handler_ret, admitted, handled,
                   replies, db_messages, db_state,
                   db_now, db_result>>

\* The POST comes back to the call: it raises, or returns the text.
GenerateReturns(t, response) ==
    /\ pc[t] = "await_generate"
    /\ LET text == generate(response) IN
       /\ ret' = IF text.raised # None THEN Raised(text.raised)
                 ELSE Returned(<<text.text>>)
       /\ generated' = Append(generated,
                              [request |-> request[t][1], response |-> response,
                               raised |-> text.raised, text |-> text.text])
    /\ request' = [request EXCEPT ![t] = <<>>]
    /\ Leave(t)
    /\ UNCHANGED <<config, message_queue, handler_ret, admitted, handled,
                   replies, db_messages, db_state,
                   db_now, db_result>>

\* One generation call to its end, the backend answering with any body.
NextParse ==
    \/ \E t \in Tasks, self \in Agents, topic \in Topics :
          generated = <<>> /\ GenerateQuestion(t, self, topic)
    \/ \E t \in Tasks, self \in Agents, question \in Topics :
          generated = <<>> /\ GenerateAnswer(t, self, question)
    \/ \E t \in Tasks, response \in Bodies :
          generated = <<>> /\ GenerateReturns(t, response)

SpecParse == InitTalk /\ [][NextParse]_vars

\* The backend answers a request as it answered it before.
Deterministic(a_request, response) ==
    \A i \in 1..Len(generated) :
       generated[i].request = a_request => generated[i].response = response

\* Generation calls of two tasks against a deterministic backend.
NextGen ==
    \/ \E t \in Tasks, self \in Agents, topic \in Topics :
          GenerateQuestion(t, self, topic)
    \/ \E t \in Tasks, self \in Agents, question \in Topics :
          GenerateAnswer(t, self, question)
    \/ \E t \in Tasks, response \in Responses :
          /\ pc[t] = "await_generate"
          /\ Deterministic(request[t][1], response)
          /\ GenerateReturns(t, response)

SpecGen == InitTalk /\ [][NextGen]_vars

\* ------------------------------------------------------ DatabaseManager

SecondsPerDay == 86400

\* The largest id among the rows, 0 if there is none.
RECURSIVE max_id(_)
max_id(rows) ==
    IF rows = <<>> THEN 0
    ELSE LET rest == max_id(Tail(rows)) IN
         IF Head(rows).id > rest THEN Head(rows).id ELSE rest

\* The INSERT of store_message. It names neither id nor timestamp: the row
\* takes the next id and the clock of the database, which cleanup_old_messages
\* compares with datetime('now', ...), a time in whole seconds.
store_message(rows, sender_id, receiver_id, content, message_type, now) ==
    Append(rows, [id |-> max_id(rows) + 1,
                  sender_id |-> sender_id, receiver_id |-> receiver_id,
                  content |-> content, message_type |-> message_type,
                  timestamp |-> now])

\* The UPDATE of update_agent_state.
update_agent_state(states, agent_id, state) ==
    [a \in DOMAIN states |-> IF a = agent_id THEN state ELSE states[a]]

\* The DELETE of cleanup_old_messages: the rows older than `days` days go.
cleanup_old_messages(rows, days, now) ==
    LET kept(row) == ~(row.timestamp < now - days * SecondsPerDay) IN
    SelectSeq(rows, kept)

\* The SELECT of get_agent_messages: the lists it can return. ORDER BY
\* timestamp DESC leaves the order of rows with one timestamp to the
\* database; a negative LIMIT is no limit in SQLite.
get_agent_messages(rows, agent_id, limit) ==
    LET matches(row) == row.sender_id = agent_id \/ row.receiver_id = agent_id
        selected == SelectSeq(rows, matches)
        n == Len(selected)
        k == IF limit < 0 \/ limit > n THEN n ELSE limit
        orders == {p \in [1..n -> 1..n] :
                     /\ \A i \in 1..n, j \in 1..n : p[i] = p[j] => i = j
                     /\ \A i \in 1..n, j \in 1..n :
                           i < j => selected[p[i]].timestamp
                                       >= selected[p[j]].timestamp} IN
    {[i \in 1..k |-> selected[p[i]]] : p \in orders}

\* limit and days arguments.
Limits == {0 - 1, 0, 1, 2}
Days == {0, 1}

\* The clock has been seen to advance this many times.
Ticks == (db_now \div SecondsPerDay) + (db_now % SecondsPerDay)

\* A second or a day passes.
Tick(seconds) ==
    /\ Ticks < MaxTicks
    /\ db_now' = db_now + seconds
    /\ UNCHANGED <<config, message_queue, pc, self_, message, ret, handler_ret,
                   admitted, handled, replies, request, generated,
                   db_messages, db_state, db_result>>

\* db.store_message(sender_id, receiver_id, content), as test_database.py
\* calls it: message_type is left at 'general'.
StoreMessage(sender_id, receiver_id, content) ==
    /\ Len(db_messages) < MaxRows
    /\ db_messages' = store_message(db_messages, sender_id, receiver_id,
                                    content, "general", db_now)
    /\ UNCHANGED <<config, message_queue, pc, self_, message, ret, handler_ret,
                   admitted, handled, replies, request, generated,
                   db_state, db_now, db_result>>

\* db.cleanup_old_messages(days).
CleanupOldMessages(days) ==
    /\ db_messages' = cleanup_old_messages(db_messages, days, db_now)
    /\ UNCHANGED <<config, message_queue, pc, self_, message, ret, handler_ret,
                   admitted, handled, replies, request, generated,
                   db_state, db_now, db_result>>

\* db.get_agent_messages(agent_id, limit).
GetAgentMessages(agent_id, limit) ==
    /\ \E rows \in get_agent_messages(db_messages, agent_id, limit) :
          db_result' = <<[agent_id |-> agent_id, limit |-> limit, rows |-> rows]>>
    /\ UNCHANGED <<config, message_queue, pc, self_, message, ret, handler_ret,
                   admitted, handled, replies, request, generated,
                   db_messages, db_state, db_now>>

\* The database on its own, as test_database.py drives it: stores and cleanups
\* while time passes, then one get_agent_messages.
InitDb ==
    /\ Init
    /\ agent_class["agent1"] = "BaseAgent"
    /\ \A a \in Agents : max_queue_size[a] = 1

NextDb ==
    \/ \E seconds \in {1, SecondsPerDay} : db_result = <<>> /\ Tick(seconds)
    \/ \E sender_id \in Agents, receiver_id \in Agents :
          db_result = <<>> /\ StoreMessage(sender_id, receiver_id, <<"H", "i">>)
    \/ \E days \in Days : db_result = <<>> /\ CleanupOldMessages(days)
    \/ \E agent_id \in Agents, limit \in Limits :
          db_result = <<>> /\ GetAgentMessages(agent_id, limit)

SpecDb == InitDb /\ [][NextDb]_vars

\* ---------------------------------------------------------------- claims

AtCapacity(a) == Len(message_queue[a]) = max_queue_size[a]

\* Task t makes a step of receive_message on agent a.
ReceiveStep(t, a) ==
    \/ \E m \in Deliveries : ReceiveMessage(t, a, m)
    \/ self_[t] = a /\ PutNowait(t)

\* C1: a mailbox of capacity C > 0 never holds more than C messages, and a
\* receive_message on a mailbox that holds C messages fails and leaves C
\* messages in it.
C1_MailboxBounded ==
    /\ [](\A a \in Agents :
            max_queue_size[a] > 0 => Len(message_queue[a]) <= max_queue_size[a])
    /\ [][\A t \in Tasks, a \in Agents :
            (max_queue_size[a] > 0 /\ AtCapacity(a) /\ ReceiveStep(t, a))
            => /\ ret'.raised # None
               /\ pc'[t] = "idle"
               /\ Len(message_queue'[a]) = max_queue_size[a]]_vars

\* A mailbox of capacity 2 is full and a receive_message was refused.
C1_Witness ==
    \E a \in Agents :
        /\ max_queue_size[a] = 2
        /\ Len(message_queue[a]) = 2
        /\ ret.raised = "QueueFullError"

\* C2: every message in the mailbox of agent a is addressed to a, and a
\* mailbox only grows by the insertion step of a receive_message call on its
\* own agent, by the message of that call.
C2_ReceiverIdentity ==
    /\ [](\A a \in Agents : \A i \in 1..Len(message_queue[a]) :
            message_queue[a][i].receiver_id = a)
    /\ [][\A a \in Agents :
            message_queue'[a] # message_queue[a]
            /\ Len(message_queue'[a]) >= Len(message_queue[a])
            => \E t \in Tasks :
                  /\ pc[t] = "put_nowait" /\ self_[t] = a /\ pc'[t] = "idle"
                  /\ message[t][1].receiver_id = a
                  /\ message_queue'[a] = Append(message_queue[a], message[t][1])
          ]_vars

\* A mailbox holds a message and a misaddressed message has been refused.
C2_Witness ==
    /\ ret.raised = "CommunicationError"
    /\ \E a \in Agents : message_queue[a] # <<>>

\* C3: the messages given to the handler of an agent are, in order, the
\* first messages admitted to its mailbox, and the mailbox holds the rest in
\* admission order.
C3_FifoDispatch ==
    \A a \in Agents :
        /\ Len(handled[a]) <= Len(admitted[a])
        /\ handled[a] = SubSeq(admitted[a], 1, Len(handled[a]))
        /\ admitted[a] = handled[a] \o message_queue[a]

\* Two different messages of one mailbox have both been dispatched.
C3_Witness ==
    \E a \in Agents :
        /\ Len(handled[a]) >= 2
        /\ handled[a][1] # handled[a][2]
        /\ handled[a][1] = admitted[a][1]

\* C4: receive_message of a message addressed to the agent, called while the
\* mailbox is at capacity, raises QueueFullError, keeps no hold of the
\* message and leaves the mailbox as it was.
C4_FullRejected ==
    [][\A t \in Tasks, a \in Agents, m \in Deliveries :
          (/\ ReceiveMessage(t, a, m)
           /\ m.receiver_id = a
           /\ max_queue_size[a] > 0
           /\ AtCapacity(a))
          => /\ ret' = Raised("QueueFullError")
             /\ pc'[t] = "idle" /\ message'[t] = <<>>
             /\ message_queue' = message_queue
             /\ admitted' = admitted]_vars

\* Capacity 1: the first message is in the mailbox, the second was refused.
C4_Witness ==
    \E a \in Agents :
        /\ max_queue_size[a] = 1
        /\ Len(message_queue[a]) = 1
        /\ message_queue[a][1] = admitted[a][1]
        /\ handled[a] = <<>>
        /\ ret.raised = "QueueFullError"

\* C5: receive_message of a message addressed to another agent raises
\* CommunicationError and leaves every mailbox as it was, also when the
\* mailbox is full.
C5_MisaddressedRejected ==
    [][\A t \in Tasks, a \in Agents, m \in Deliveries :
          (ReceiveMessage(t, a, m) /\ m.receiver_id # a)
          => /\ ret' = Raised("CommunicationError")
             /\ pc'[t] = "idle" /\ message'[t] = <<>>
             /\ message_queue' = message_queue
             /\ admitted' = admitted]_vars

\* Every mailbox is full and a misaddressed message has been refused.
C5_Witness ==
    /\ ret.raised = "CommunicationError"
    /\ \A a \in Agents : AtCapacity(a)

\* C6: a process_messages call ends, its handlers completing; when it
\* returns the mailbox of its agent is empty; and started on an empty mailbox
\* its first step returns None and no handler has been invoked.
C6_DrainsUntilEmpty ==
    /\ \A t \in Tasks : (pc[t] \in {"while", "await_post"}) ~> (pc[t] = "idle")
    /\ [][\A t \in Tasks :
            (pc[t] = "while" /\ pc'[t] = "idle" /\ ret'.raised = None)
            => message_queue'[self_[t]] = <<>>]_vars
    /\ [][\A t \in Tasks :
            (/\ pc[t] = "while"
             /\ message_queue[self_[t]] = <<>>
             /\ (WhileEmpty(t) \/ WhileGet(t)))
            => /\ pc'[t] = "idle"
               /\ ret' = Returned(<<>>)
               /\ handled' = handled /\ handler_ret' = handler_ret
               /\ message_queue' = message_queue]_vars

\* An AnswerAgent has answered the one question of its mailbox and its
\* process_messages has returned: nothing runs, the mailbox is empty.
C6_Witness ==
    \E a \in Agents :
        /\ agent_class[a] = "AnswerAgent"
        /\ Len(handled[a]) = 1 /\ handled[a][1].message_type = "question"
        /\ admitted[a] = handled[a]
        /\ handler_ret # <<>>
        /\ message_queue[a] = <<>>
        /\ \A t \in Tasks : pc[t] = "idle"
        /\ ret = Returned(<<>>)

\* C7: no agent has two handler invocations in flight.
C7_OneHandlerInFlight ==
    \A a \in Agents :
        Cardinality({t \in Tasks : self_[t] = a /\ pc[t] = "await_post"}) <= 1

\* C8: the insertion step of a receive_message call admits the message, or
\* raises QueueFullError and leaves the mailbox as it was.
C8_RaceLoserQueueFull ==
    [][\A t \in Tasks :
          PutNowait(t)
          => \/ /\ ret'.raised = None
                /\ message_queue'[self_[t]] =
                       Append(message_queue[self_[t]], message[t][1])
             \/ /\ ret'.raised = "QueueFullError"
                /\ message_queue' = message_queue]_vars

\* C9: send_message with a str destination returns a Message that carries
\* the caller's agent_id, the destination, the content, the tag (general
\* when omitted) and a non-empty timestamp, and changes no mailbox.
C9_SendBuildsMessage ==
    [][\A self \in Agents, to_agent_id \in Destinations \ {None},
          content \in Contents, message_type \in MessageTypeArgs, now \in Clock :
          SendMessage(self, to_agent_id, content, message_type, now)
          => /\ ret'.raised = None
             /\ Len(ret'.value) = 1
             /\ ret'.value[1].sender_id = self
             /\ ret'.value[1].receiver_id = to_agent_id
             /\ ret'.value[1].content = content
             /\ ret'.value[1].message_type =
                    (IF message_type = Omitted THEN "general" ELSE message_type)
             /\ Len(ret'.value[1].timestamp) > 0
             /\ message_queue' = message_queue
             /\ admitted' = admitted]_vars

\* A Message has been built for an agent whose mailbox holds a message and
\* has room for one more.
C9_Witness ==
    /\ ret.value # <<>>
    /\ \E a \in Agents :
          /\ ret.value[1].receiver_id = a
          /\ Len(message_queue[a]) = 1
          /\ max_queue_size[a] = 2

\* C10: send_message with an empty destination identifier raises
\* CommunicationError and returns no Message.
C10_EmptyIdentifierRejected ==
    [][\A self \in Agents, content \in Contents,
          message_type \in MessageTypeArgs, now \in Clock :
          SendMessage(self, "", content, message_type, now)
          => ret' = Raised("CommunicationError")]_vars

\* C11: once the handler of the AnswerAgent has returned its reply to a
\* question of the QuestionAgent, a call hands the reply, of type answer and
\* addressed to the questioner, to its caller.
C11_ReplyYieldedToCaller ==
    \A a \in Agents :
       (replies[a] # <<>>)
       ~> ( /\ ret.raised = None
            /\ ret.value # <<>>
            /\ ret.value[1].message_type = "answer"
            /\ agent_class[ret.value[1].receiver_id] = "QuestionAgent" )

\* The generation backend answered with status 200 and well-formed lines.
Succeeds(response) ==
    response.status_code = 200 /\ generate(response).raised = None

\* C12: the AnswerAgent handler of a question m, when generation succeeds,
\* returns exactly one Message, from the agent to m.sender_id, of type answer,
\* whose content is the generated answer, and puts nothing in any mailbox.
C12_AnswerToSender ==
    [][\A t \in Tasks, response \in Responses :
          (PostReturns(t, response, 7) /\ Succeeds(response))
          => /\ Len(handler_ret') = 1
             /\ handler_ret'[1].sender_id = self_[t]
             /\ handler_ret'[1].receiver_id = message[t][1].sender_id
             /\ handler_ret'[1].message_type = "answer"
             /\ handler_ret'[1].content = generate(response).text
             /\ replies' = [replies EXCEPT ![self_[t]] = @ \o handler_ret']
             /\ message[t][1].message_type = "question"
             /\ message_queue' = message_queue
             /\ admitted' = admitted]_vars

\* The AnswerAgent has answered "Hello" to a question of the other agent.
C12_Witness ==
    /\ handler_ret # <<>>
    /\ handler_ret[1].sender_id = "agent2"
    /\ handler_ret[1].receiver_id = "agent1"
    /\ handler_ret[1].content = <<"H", "e", "l", "l", "o">>
    /\ \E i \in 1..Len(handled["agent2"]) :
          handled["agent2"][i].message_type = "question"

\* C13: the AnswerAgent handler of a message whose type is not question does
\* nothing: no generation call, no Message returned, no exception, and no
\* mailbox changed beyond the dequeue process_messages made.
C13_OtherTypesIgnored ==
    [][\A t \in Tasks :
          ( /\ WhileGet(t)
            /\ agent_class[self_[t]] = "AnswerAgent"
            /\ get_item(message_queue[self_[t]]).message_type # "question" )
          => /\ pc'[t] = "while"
             /\ handler_ret' = <<>>
             /\ replies' = replies
             /\ ret' = ret
             /\ admitted' = admitted
             /\ message_queue' =
                    [message_queue EXCEPT ![self_[t]] = Tail(@)]]_vars

\* The AnswerAgent has handled a message of type general, and only that.
C13_Witness ==
    \E a \in Agents :
       /\ agent_class[a] = "AnswerAgent"
       /\ Len(handled[a]) = 1
       /\ handled[a][1].message_type = "general"
       /\ replies[a] = <<>>
       /\ \A t \in Tasks : pc[t] = "idle"

\* C16: process_messages on a BaseAgent with a message in its mailbox gives
\* the message to the handler, which raises NotImplementedError, and the
\* exception ends the call and reaches its caller.
C16_BaseHandlerNotImplemented ==
    [][\A t \in Tasks :
          (WhileGet(t) /\ agent_class[self_[t]] = "BaseAgent")
          => /\ ret' = Raised("NotImplementedError")
             /\ pc'[t] = "idle"
             /\ replies' = replies]_vars

\* process_messages on a BaseAgent has ended with NotImplementedError.
C16_Witness ==
    /\ ret = Raised("NotImplementedError")
    /\ \E a \in Agents :
          agent_class[a] = "BaseAgent" /\ Len(handled[a]) = 1

\* Task t makes a step of receive_message or of process_messages on agent a.
StepOn(t, a) ==
    \/ ReceiveStep(t, a)
    \/ ProcessMessages(t, a)
    \/ self_[t] = a /\ WhileEmpty(t)
    \/ self_[t] = a /\ WhileGet(t)
    \/ self_[t] = a /\ \E response \in Responses : PostReturns(t, response, 7)

\* C19: a step of receive_message or process_messages on agent a leaves the
\* mailbox of every other agent as it was, whatever the other task is doing.
C19_OnlyOwnMailbox ==
    [][\A t \in Tasks, a \in Agents :
          StepOn(t, a)
          => \A b \in Agents \ {a} :
                /\ message_queue'[b] = message_queue[b]
                /\ admitted'[b] = admitted[b]
                /\ handled'[b] = handled[b]]_vars

\* Both agents have admitted a message, one mailbox still holds its message
\* and the other agent's has been drained while a task is inside a call.
C19_Witness ==
    \E a \in Agents, b \in Agents :
       /\ a # b
       /\ Len(message_queue[a]) = 1
       /\ Len(admitted[a]) = 1
       /\ Len(handled[b]) = 1
       /\ message_queue[b] = <<>>
       /\ \E t \in Tasks : pc[t] # "idle"

\* C15: when the POST times out, comes back with a status other than 200 or
\* carries a line that is not JSON, generate_answer raises OllamaError (the
\* error class of generation failures) and the AnswerAgent handler returns
\* no reply.
C15_FailedGenerationNoReply ==
    [][\A t \in Tasks, response \in Responses :
          (PostReturns(t, response, 7) /\ ~Succeeds(response))
          => /\ ret' = Raised("OllamaError")
             /\ pc'[t] = "idle"
             /\ replies' = replies]_vars

\* The messages of type question in a history.
Questions(log) == {i \in 1..Len(log) : log[i].message_type = "question"}

\* C14: the QuestionAgent handler returns None and starts no generation for
\* any message, so when the replies the handlers return are delivered and
\* processed, an agent has returned no more replies than it has handled
\* questions, every call under way ends, and a process_messages call on the
\* QuestionAgent empties its mailbox.
C14_QuestionAgentTerminal ==
    /\ [](\A t \in Tasks :
            pc[t] = "await_post" => agent_class[self_[t]] = "AnswerAgent")
    /\ [][\A t \in Tasks :
            (WhileGet(t) /\ agent_class[self_[t]] = "QuestionAgent")
            => /\ pc'[t] = "while"
               /\ handler_ret' = <<>>
               /\ replies' = replies
               /\ ret' = ret]_vars
    /\ [](\A a \in Agents :
            /\ Len(replies[a]) <= Cardinality(Questions(handled[a]))
            /\ agent_class[a] = "QuestionAgent" => replies[a] = <<>>)
    /\ \A t \in Tasks : (pc[t] # "idle") ~> (pc[t] = "idle")
    /\ \A t \in Tasks, a \in Agents :
          (pc[t] = "while" /\ self_[t] = a /\ agent_class[a] = "QuestionAgent")
          ~> (message_queue[a] = <<>>)

\* The question has been answered, the reply delivered to the QuestionAgent
\* and handled by it; both mailboxes are empty and no call is under way.
C14_Witness ==
    /\ Len(replies["agent2"]) = 1
    /\ Cardinality(Questions(handled["agent2"])) = 1
    /\ handled["agent1"] = replies["agent2"]
    /\ \A a \in Agents : message_queue[a] = <<>>
    /\ \A t \in Tasks : pc[t] = "idle"

\* The fragments of the records of a body that carry the field, joined in
\* line order, and a text without the white space at its two ends.
RECURSIVE Joined(_, _)
Joined(lines, n) ==
    IF n = 0 THEN <<>>
    ELSE Joined(lines, n - 1) \o
         (IF lines[n].kind = "object" /\ lines[n].response # <<>>
          THEN lines[n].response[1] ELSE <<>>)
Trimmed(text) ==
    LET inked == {i \in 1..Len(text) : text[i] \notin {" ", "\t", "\n", "\r"}} IN
    IF inked = {} THEN <<>>
    ELSE SubSeq(text, CHOOSE i \in inked : \A j \in inked : i <= j,
                      CHOOSE i \in inked : \A j \in inked : j <= i)
WellFormed(lines) == \A n \in 1..Len(lines) : lines[n].kind # "garbage"

\* C17: for a body whose lines are JSON records or blank, generate_question
\* and generate_answer return the fragments of the records that carry the
\* response field, joined in line order and trimmed at both ends.
C17_FragmentsJoinedTrimmed ==
    \A i \in 1..Len(generated) :
       LET lines == generated[i].response.lines IN
       WellFormed(lines)
       => /\ generated[i].raised = None
          /\ generated[i].text = Trimmed(Joined(lines, Len(lines)))
          /\ Len(generated) = 1 => ret = Returned(<<generated[i].text>>)

\* A call has returned "Hello" for the fragments " Hel", none, "lo\n".
C17_Witness ==
    /\ ret = Returned(<<<<"H", "e", "l", "l", "o">>>>)
    /\ Len(generated) = 1
    /\ generated[1].response.lines =
          <<Record(<<<<" ", "H", "e", "l">>>>), Record(<<>>),
            Record(<<<<"l", "o", "\n">>>>)>>

Stored(m) ==
    \E n \in 1..Len(db_messages) :
       SubSeq(db_messages, 1, n) =
          store_message(SubSeq(db_messages, 1, n - 1), m.sender_id,
                        m.receiver_id, m.content, m.message_type,
                        db_messages[n].timestamp)

\* C20: every Message receive_message has admitted has its row in the table
\* messages, and an agent whose handler has returned a reply has its state
\* column written.
C20_AdmittedMessagesStored ==
    /\ \A a \in Agents : \A i \in 1..Len(admitted[a]) : Stored(admitted[a][i])
    /\ \A a \in Agents : replies[a] # <<>> => db_state[a] # None

\* C21: an agent constructed with max_queue_size 0 or negative has a bounded
\* mailbox all the same: of the MaxAdmitted messages delivered to it and not
\* processed, receive_message rejects at least one with QueueFullError, so
\* the mailbox never holds them all.
C21_BoundedWhateverSize ==
    \A a \in Agents :
       max_queue_size[a] <= 0 => Len(message_queue[a]) < MaxAdmitted

\* C22: every handler invocation takes the next admitted message that no
\* handler has been given yet and removes it from the mailbox, so no message
\* is handled twice and none that was not admitted; only a dequeue adds to
\* the handled messages, and when a drain ends at an empty mailbox every
\* admitted message has been given to the handler.
C22_HandledAtMostOnce ==
    /\ [](\A a \in Agents :
            Len(handled[a]) + Len(message_queue[a]) = Len(admitted[a]))
    /\ [][\A t \in Tasks :
            WhileGet(t)
            => LET a == self_[t]
                   n == Len(handled[a]) + 1 IN
               /\ Len(handled'[a]) = n
               /\ handled'[a][n] = admitted[a][n]
               /\ Len(message_queue'[a]) = Len(message_queue[a]) - 1
               /\ admitted' = admitted]_vars
    /\ [][\A t \in Tasks :
            WhileEmpty(t) => Len(handled[self_[t]]) = Len(admitted[self_[t]])]_vars
    /\ [][(handled' # handled) => \E t \in Tasks : WhileGet(t)]_vars

\* One message was admitted twice to a mailbox and each admission has been
\* handled once, by drains that have ended.
C22_Witness ==
    \E a \in Agents :
       /\ Len(admitted[a]) = 2
       /\ admitted[a][1] = admitted[a][2]
       /\ Len(handled[a]) = 2
       /\ \A t \in Tasks : pc[t] = "idle"

\* The step of task t in which the handler of message m raises.
HandlerFails(t, m) ==
    \/ /\ WhileGet(t)
       /\ m = get_item(message_queue[self_[t]])
       /\ handle_message(agent_class[self_[t]], m) \notin {"return", "await"}
    \/ /\ pc[t] = "await_post"
       /\ m = message[t][1]
       /\ \E response \in Responses :
             PostReturns(t, response, 7) /\ generate(response).raised # None

\* C23: when a handler raises, process_messages ends with the exception; the
\* message is out of the mailbox and stays out, and the messages behind it
\* are the mailbox, in admission order, for the next process_messages call.
C23_FailureStopsDrain ==
    [][\A t \in Tasks, m \in Deliveries :
          HandlerFails(t, m)
          => LET a == self_[t] IN
             /\ pc'[t] = "idle"
             /\ ret'.raised # None
             /\ \E i \in 1..Len(handled'[a]) : handled'[a][i] = m
             /\ message_queue'[a] =
                    SubSeq(admitted[a], Len(handled'[a]) + 1, Len(admitted[a]))
             /\ admitted' = admitted
             /\ replies' = replies]_vars

\* A drain of a BaseAgent has ended with the exception at the first of two
\* messages, and the second is still in the mailbox.
C23_Witness ==
    \E a \in Agents :
       /\ ret.raised = "NotImplementedError"
       /\ Len(admitted[a]) = 2
       /\ handled[a] = <<admitted[a][1]>>
       /\ message_queue[a] = <<admitted[a][2]>>
       /\ \A t \in Tasks : pc[t] = "idle"

\* The rows of the table with agent_id as sender or receiver, in the order
\* they were stored.
StoredFor(agent_id) ==
    LET concerns(row) == row.sender_id = agent_id \/ row.receiver_id = agent_id IN
    SelectSeq(db_messages, concerns)

\* C24: the list get_agent_messages(agent_id, limit) returns has at most
\* limit rows, and they are the rows last stored with agent_id as sender or
\* receiver and not cleaned up since, the last stored first.
C24_MostRecentFirst ==
    db_result # <<>> =>
       LET query == db_result[1]
           stored == StoredFor(query.agent_id)
           n == Len(stored)
           k == Len(query.rows) IN
       /\ k <= query.limit
       /\ k = n \/ k = query.limit
       /\ query.rows = [i \in 1..k |-> stored[n + 1 - i]]

====
